---- MODULE Spec2Model ----
(***************************************************************************)
(* Model of data-access-optimizer.                                         *)
(* The lookup half:                                                        *)
(*   src/src/lookup/parquet_lookup.py   ParquetLookup  (kind "generic")    *)
(*   src/src/lookup/manifest_lookup.py  ManifestLookup (kind "manifest")   *)
(* One engine instance is modelled.  Its constructor is followed step by   *)
(* step (pc), the operations of a constructed engine are one action each.  *)
(* The embedded store (duckdb) and the object store (boto3) are black      *)
(* boxes: a statement either is rejected by the store or selects the rows  *)
(* satisfying its conditions; a transfer either succeeds or fails.         *)
(* The generator half:                                                     *)
(*   src/src/generator/parquet_indexer.py  GeneTissueManifestGenerator     *)
(* One run of generate_parquet_file is followed step by step (gpc), or one *)
(* call of write_optimized_parquet (BuildSpec); SizingSpec is the          *)
(* row-group sizing alone, for tables of any size.  pandas and pyarrow are *)
(* black boxes: a comparison with a missing value is false, a sort by one  *)
(* column may reorder equal keys, a write either succeeds or raises and    *)
(* then leaves no file.                                                    *)
(***************************************************************************)
EXTENDS Integers, Sequences, FiniteSets, TLC

(***************************************************************************)
(* Bounds of the model.                                                    *)
(***************************************************************************)
MaxRows == 2
MaxPred == 2
WideTissue == 12

(***************************************************************************)
(* Python values that reach the engine as arguments.  Every value is a     *)
(* record of the same shape: k is the Python type, s the characters of a   *)
(* str, n the number of an int.                                            *)
(***************************************************************************)
NoneV == [k |-> "none", s |-> << >>, n |-> 0]
StrV(chars) == [k |-> "str", s |-> chars, n |-> 0]
IntV(i) == [k |-> "int", s |-> << >>, n |-> i]

\* Python truthiness: None, "" and 0 are falsy.
Truthy(v) ==
    CASE v.k = "none" -> FALSE
      [] v.k = "str" -> Len(v.s) > 0
      [] OTHER -> v.n # 0

Genes == { <<"A">>, <<"B">> }
\* The tissue ids a manifest can hold here: 0 and one of several digits.
TissueIds == {0, WideTissue}
\* Stored locations: a plain object key, a remote reference, an empty string.
Locs == { "k1", "s3://b/k2", "" }
RemoteRefs == { l \in Locs : l = "s3://b/k2" }

Digits == <<"0", "1", "2", "3", "4", "5", "6", "7", "8", "9">>
DigitVal(c) == CHOOSE d \in 0 .. 9 : Digits[d + 1] = c
IsDigit(c) == \E d \in 0 .. 9 : Digits[d + 1] = c

RECURSIVE Dec(_)
\* str(n) for n >= 0
Dec(n) == IF n < 10 THEN << Digits[n + 1] >> ELSE Dec(n \div 10) \o << Digits[(n % 10) + 1] >>

ModelPrefix == <<"m", "o", "d", "e", "l", "_">>
TissuePrefix == <<"t", "i", "s", "s", "u", "e", "_">>

StartsWith(s, p) == Len(s) >= Len(p) /\ SubSeq(s, 1, Len(p)) = p

RECURSIVE RemoveAll(_, _)
\* str.replace(p, ""): every non-overlapping occurrence of p, left to right.
RemoveAll(s, p) ==
    IF Len(s) < Len(p) THEN s
    ELSE IF StartsWith(s, p) THEN RemoveAll(SubSeq(s, Len(p) + 1, Len(s)), p)
    ELSE << s[1] >> \o RemoveAll(Tail(s), p)

\* int(str) accepts digits, with single underscores between digits.
IntLiteral(s) ==
    /\ Len(s) > 0
    /\ IsDigit(s[1]) /\ IsDigit(s[Len(s)])
    /\ \A i \in 1 .. Len(s) : IsDigit(s[i]) \/ s[i] = "_"
    /\ \A i \in 1 .. Len(s) - 1 : ~(s[i] = "_" /\ s[i + 1] = "_")

RECURSIVE IntOf(_)
IntOf(s) ==
    IF Len(s) = 0 THEN 0
    ELSE IF s[Len(s)] = "_" THEN IntOf(SubSeq(s, 1, Len(s) - 1))
    ELSE 10 * IntOf(SubSeq(s, 1, Len(s) - 1)) + DigitVal(s[Len(s)])

\* The prefix stripping of ManifestLookup._query, before int().
StripModel(s) == IF StartsWith(s, ModelPrefix) THEN RemoveAll(s, ModelPrefix) ELSE s
StripTissue(s) == IF StartsWith(s, TissuePrefix) THEN RemoveAll(s, TissuePrefix) ELSE s
StripPrefixes(s) == StripTissue(StripModel(s))

(***************************************************************************)
(* Schema contract: ManifestLookup hard-codes it; for ParquetLookup it is  *)
(* what the abstract hooks return (the same gene/tissue contract).         *)
(***************************************************************************)
RequiredColumns == <<"gene_id", "tissue_id", "file_path">>
RequiredSet == { RequiredColumns[i] : i \in 1 .. Len(RequiredColumns) }
QueryableColumns == {"gene_id", "tissue_id"}
IndexSpec == <<"gene_id", "tissue_id">>
AllColumns == RequiredSet \cup {"extra"}

Rows == [gene_id : Genes, tissue_id : TissueIds, file_path : Locs]
RECURSIVE TablesUpTo(_)
TablesUpTo(n) ==
    IF n = 0 THEN { {} }
    ELSE LET T == TablesUpTo(n - 1) IN T \cup { t \cup {r} : t \in T, r \in Rows }
\* The contents a manifest file can have: at most MaxRows rows.
Tables == TablesUpTo(MaxRows)

\* The value a row holds in a column, as a Python value.
Cell(r, col) ==
    CASE col = "gene_id" -> StrV(r.gene_id)
      [] col = "tissue_id" -> IntV(r.tissue_id)
      [] OTHER -> StrV(<< r.file_path >>)

(***************************************************************************)
(* The sources an engine can be opened on.  remote: the path starts with   *)
(* s3://; tmp: a tmp_dir was passed; exists/valid/cols/rows describe the   *)
(* file (local, or the remote object); idxFailAt = k > 0: the k-th index   *)
(* creation is rejected by the store.  Combinations that differ only in a  *)
(* part the constructor never reads are left out.                          *)
(***************************************************************************)
Source(remote, tmp, exists, valid, cols, rows, idxFailAt) ==
    [remote |-> remote, tmp |-> tmp, exists |-> exists, valid |-> valid,
     cols |-> cols, rows |-> rows, idxFailAt |-> idxFailAt]
Sources ==
    \* a local path that does not exist
    { Source(FALSE, TRUE, FALSE, TRUE, RequiredSet, {}, 0) }
    \* a file the store cannot load
    \cup { Source(r, t, TRUE, FALSE, RequiredSet, {}, 0) : r \in BOOLEAN, t \in BOOLEAN }
    \* a file with any set of columns
    \cup { Source(r[1], r[2], TRUE, TRUE, c, {}, 0) :
             r \in BOOLEAN \X BOOLEAN, c \in SUBSET AllColumns }
    \* a complete file for which an index creation fails
    \cup { Source(r[1], r[2], TRUE, TRUE, RequiredSet, {}, k) :
             r \in BOOLEAN \X BOOLEAN, k \in 1 .. Len(IndexSpec) }
    \* a complete file with rows (and a tmp_dir)
    \cup { Source(r, TRUE, TRUE, TRUE, RequiredSet, rows, 0) : r \in BOOLEAN, rows \in Tables }

ManifestKey == "m"
CacheKeys == {ManifestKey} \cup (Locs \ {""})

\* A local path: the given local file, or tmp_dir joined with a key.
GivenPath == [root |-> "given", rel |-> ManifestKey]
TmpPath(key) == [root |-> "tmp", rel |-> key]
NoPath == [root |-> "unset", rel |-> ""]

\* What the last call did: op and pred are the call, status "ok" or the
\* exception raised, what tags the raise site, missing the columns an error
\* message names, rows/vals/val/path the result, loc the stored location
\* used, stmts the statements sent to the store, fetched the transfers started.
NoCall ==
    [op |-> "none", pred |-> << >>, status |-> "ok", what |-> "", missing |-> {},
     rows |-> {}, vals |-> {}, val |-> NoneV, loc |-> "", path |-> NoPath, stmts |-> << >>, fetched |-> << >>]

(***************************************************************************)
(* The generator half (src/src/generator/parquet_indexer.py) is a process  *)
(* of its own; its state is declared here and modelled further down.  In a *)
(* process that only looks up, it stays as GeneratorOff says, and in a     *)
(* generator process there is no engine (LookupOff).                       *)
(***************************************************************************)
VARIABLES
    entry,                   \* the method the caller invoked
    gpc,                     \* where the generator process is
    input_path,              \* the input file
    chunk_size,              \* the chunk_size argument of process_file_list
    total_lines,             \* process_file_list: lines read so far
    total_valid,             \* process_file_list: records kept so far
    all_data,                \* process_file_list: the records kept so far
    log,                     \* the logging records emitted so far
    df,                      \* the DataFrame in hand
    output_file,             \* what lies at the output path
    exit_code,               \* how the call or the process ended
    record_count,            \* write_optimized_parquet: len(df)
    optimal_row_group_size   \* write_optimized_parquet: the size computed

gvars == <<entry, gpc, input_path, chunk_size, total_lines, total_valid, all_data, log,
           df, output_file, exit_code, record_count, optimal_row_group_size>>

\* a file: whether it exists, the chunk whose read raises (0: none), its
\* lines as runs (a run is n copies of the same line)
NoInput == [exists |-> FALSE, fails_at |-> 0, runs |-> << >>]
\* a DataFrame: its columns and its rows in order
EmptyFrame == [cols |-> {}, rows |-> << >>]
\* nothing at the output path
NoFile == [state |-> "absent", rows |-> << >>, row_group_size |-> 0]
Running == "running"

GeneratorOff ==
    /\ entry = "none"
    /\ gpc = "off"
    /\ input_path = NoInput
    /\ chunk_size = 0
    /\ total_lines = 0
    /\ total_valid = 0
    /\ all_data = << >>
    /\ log = << >>
    /\ df = EmptyFrame
    /\ output_file = NoFile
    /\ exit_code = Running
    /\ record_count = 0
    /\ optimal_row_group_size = 0

VARIABLES kind, src, pc, alive, bucket, localPath, con, table, indexes, cache, last

lvars == <<kind, src, pc, alive, bucket, localPath, con, table, indexes, cache, last>>
vars == <<lvars, gvars>>

EmptyTable == [cols |-> {}, rows |-> {}]

Init ==
    /\ kind \in {"generic", "manifest"}
    /\ src \in Sources
    /\ (kind = "manifest" \/ ~src.remote => src.tmp)
    /\ pc = "new"
    /\ alive = TRUE
    /\ bucket = FALSE
    /\ localPath = NoPath
    /\ con = "absent"
    /\ table = EmptyTable
    /\ indexes = {}
    /\ cache = [k \in CacheKeys |-> "absent"]
    /\ last = NoCall
    /\ GeneratorOff

Raise(op, pred, exc, what) ==
    [NoCall EXCEPT !.op = op, !.pred = pred, !.status = exc, !.what = what]

(***************************************************************************)
(* _read_s3_file(key): join tmp_dir and key, truncate-open the local file, *)
(* stream the object into it.  ok is the outcome of the transfer.  Every   *)
(* exception inside is re-raised as ValueError("S3 download failed").      *)
(* ParquetLookup has no default tmp_dir (os.path.join(None, ..) raises     *)
(* before any file is opened) and refuses to run without a bucket;         *)
(* ManifestLookup hands its bucket, None included, to the client, which    *)
(* rejects None after the local file was opened.                           *)
(***************************************************************************)
\* (variant: a failed transfer is logged and the path returned all the same)
ReadS3FileSwallowed(k, key, hasBucket, tmpGiven, files, ok) ==
    IF k = "generic" /\ ~hasBucket
    THEN [status |-> "ValueError", what |-> "no-bucket", path |-> NoPath,
          files |-> files, fetched |-> << >>]
    ELSE IF ~tmpGiven
    THEN [status |-> "ValueError", what |-> "s3-download", path |-> NoPath,
          files |-> files, fetched |-> << >>]
    ELSE [status |-> "ok", what |-> "", path |-> TmpPath(key),
          files |-> [files EXCEPT ![key] = IF ok /\ hasBucket THEN "complete" ELSE "partial"],
          fetched |-> << key >>]

ReadS3File(k, key, hasBucket, tmpGiven, files, ok) ==
    IF k = "generic" /\ ~hasBucket
    THEN [status |-> "ValueError", what |-> "no-bucket", path |-> NoPath,
          files |-> files, fetched |-> << >>]
    ELSE IF ~tmpGiven
    THEN [status |-> "ValueError", what |-> "s3-download", path |-> NoPath,
          files |-> files, fetched |-> << >>]
    ELSE IF ok /\ hasBucket
    THEN [status |-> "ok", what |-> "", path |-> TmpPath(key),
          files |-> [files EXCEPT ![key] = "complete"], fetched |-> << key >>]
    ELSE [status |-> "ValueError", what |-> "s3-download", path |-> NoPath,
          files |-> [files EXCEPT ![key] = "partial"], fetched |-> << key >>]

\* os.path.exists(path)
PathExists(path, files) ==
    CASE path.root = "given" -> src.exists
      [] path.root = "tmp" -> files[path.rel] # "absent"
      [] OTHER -> FALSE

(***************************************************************************)
(* The constructor, step by step.  pc: new -> resolved -> connected ->     *)
(* loaded -> checked -> ready, or -> failed when a step raises (the caller *)
(* then holds no reference: only the finalizer can still run).             *)
(***************************************************************************)

\* ParquetLookup.__init__ up to and including _get_local_path().
GetLocalPath ==
    /\ pc = "new" /\ kind = "generic"
    /\ bucket' = src.remote
    /\ IF src.remote
       THEN \E ok \in BOOLEAN :
              LET r == ReadS3File(kind, ManifestKey, TRUE, src.tmp, cache, ok) IN
              /\ cache' = r.files
              /\ IF r.status = "ok"
                 THEN /\ localPath' = r.path
                      /\ pc' = "resolved"
                      /\ last' = [NoCall EXCEPT !.op = "open", !.fetched = r.fetched]
                 ELSE /\ localPath' = localPath
                      /\ pc' = "failed"
                      /\ last' = [Raise("open", << >>, r.status, r.what)
                                    EXCEPT !.fetched = r.fetched]
       ELSE /\ cache' = cache
            /\ IF src.exists
               THEN /\ localPath' = GivenPath
                    /\ pc' = "resolved"
                    /\ last' = [NoCall EXCEPT !.op = "open"]
               ELSE \* line 61 reads self.local_file_path, which is not set yet
                    /\ localPath' = localPath
                    /\ pc' = "failed"
                    /\ last' = Raise("open", << >>, "AttributeError", "not-found")
    /\ UNCHANGED <<gvars, kind, src, alive, con, table, indexes>>

\* ManifestLookup.__init__ up to and including _load_file().
LoadFile ==
    /\ pc = "new" /\ kind = "manifest"
    /\ bucket' = src.remote
    /\ IF src.remote
       THEN \E ok \in BOOLEAN :
              LET r == ReadS3File(kind, ManifestKey, TRUE, TRUE, cache, ok) IN
              /\ cache' = r.files
              /\ IF r.status # "ok"
                 THEN /\ localPath' = localPath
                      /\ pc' = "failed"
                      /\ last' = [Raise("open", << >>, r.status, r.what)
                                    EXCEPT !.fetched = r.fetched]
                 ELSE /\ localPath' = r.path
                      /\ IF PathExists(r.path, r.files)
                         THEN /\ pc' = "resolved"
                              /\ last' = [NoCall EXCEPT !.op = "open", !.fetched = r.fetched]
                         ELSE /\ pc' = "failed"
                              /\ last' = [Raise("open", << >>, "FileNotFoundError", "not-found")
                                            EXCEPT !.fetched = r.fetched]
       ELSE /\ cache' = cache
            /\ localPath' = GivenPath
            /\ IF PathExists(GivenPath, cache)
               THEN /\ pc' = "resolved"
                    /\ last' = [NoCall EXCEPT !.op = "open"]
               ELSE /\ pc' = "failed"
                    /\ last' = Raise("open", << >>, "FileNotFoundError", "not-found")
    /\ UNCHANGED <<gvars, kind, src, alive, con, table, indexes>>

\* _load_data: duckdb.connect(':memory:')
Connect ==
    /\ pc = "resolved"
    /\ con' = "open"
    /\ pc' = "connected"
    /\ UNCHANGED <<gvars, kind, src, alive, bucket, localPath, table, indexes, cache, last>>

\* _load_data: CREATE TABLE .. AS SELECT * FROM '<local file>'
LoadTable ==
    /\ pc = "connected"
    /\ IF src.valid
       THEN /\ table' = [cols |-> src.cols, rows |-> src.rows]
            /\ pc' = "loaded"
            /\ last' = last
       ELSE /\ table' = table
            /\ pc' = "failed"
            /\ last' = Raise("open", << >>, "ValueError", "load")
    /\ UNCHANGED <<gvars, kind, src, alive, bucket, localPath, con, indexes, cache>>

\* (variant: the difference taken the wrong way round)
MissingColumnsReversed(cols) == cols \ RequiredSet

\* required_columns - column_names
MissingColumns(cols) == RequiredSet \ cols

\* _load_data: PRAGMA table_info, the required-columns check
CheckSchema ==
    /\ pc = "loaded"
    /\ LET missing == MissingColumns(table.cols) IN
       IF missing # {}
       THEN /\ pc' = "failed"
            /\ last' = [Raise("open", << >>, "ValueError", "missing-columns")
                          EXCEPT !.missing = missing]
       ELSE /\ pc' = "checked"
            /\ last' = last
    /\ UNCHANGED <<gvars, kind, src, alive, bucket, localPath, con, table, indexes, cache>>

\* The indexes built when the k-th creation fails (k = 0: none fails).
IndexesBuilt(k) ==
    { IndexSpec[i] : i \in { j \in 1 .. Len(IndexSpec) : k = 0 \/ j < k } }

\* (variant: a failed index creation is not propagated)
CreateIndexesUnchecked ==
    /\ pc = "checked"
    /\ indexes' = IndexesBuilt(src.idxFailAt)
    /\ pc' = "ready"
    /\ last' = last
    /\ UNCHANGED <<gvars, kind, src, alive, bucket, localPath, con, table, cache>>

\* _load_data: the index creations, then the constructor returns
CreateIndexes ==
    /\ pc = "checked"
    /\ indexes' = IndexesBuilt(src.idxFailAt)
    /\ IF src.idxFailAt = 0
       THEN /\ pc' = "ready"
            /\ last' = last
       ELSE /\ pc' = "failed"
            /\ last' = Raise("open", << >>, "ValueError", "index")
    /\ UNCHANGED <<gvars, kind, src, alive, bucket, localPath, con, table, cache>>

(***************************************************************************)
(* Statements.  A statement is the list of pieces the code joins with      *)
(* blanks, and the bound parameters.                                       *)
(***************************************************************************)
SelectTok == [t |-> "SELECT required FROM table WHERE", col |-> ""]
DistinctTok(c) == [t |-> "SELECT DISTINCT col FROM table", col |-> c]
AndTok == [t |-> "AND", col |-> ""]
CondTok(c) == [t |-> "col = ?", col |-> c]
Statement(tokens, params) == [tokens |-> tokens, params |-> params]

IsCond(tok) == tok.t = "col = ?"

\* The store's parser: SELECT .. WHERE cond (AND cond)*, one parameter per "?".
WellFormed(stmt) ==
    LET tk == stmt.tokens IN
    \/ Len(tk) = 1 /\ tk[1].t = DistinctTok("").t /\ Len(stmt.params) = 0
    \/ /\ Len(tk) >= 2 /\ Len(tk) % 2 = 0
       /\ tk[1] = SelectTok
       /\ \A i \in 2 .. Len(tk) : IF i % 2 = 0 THEN IsCond(tk[i]) ELSE tk[i] = AndTok
       /\ Len(stmt.params) = Len(tk) \div 2

\* The rows a well-formed SELECT .. WHERE selects: every condition holds.
Selected(stmt, rows) ==
    { r \in rows : \A i \in 1 .. Len(stmt.params) :
                      Cell(r, stmt.tokens[2 * i].col) = stmt.params[i] }

Outcome(status, what, rows, stmts) ==
    [status |-> status, what |-> what, rows |-> rows, stmts |-> stmts]

\* self.con.execute(query, params).fetchall(): con is None after close();
\* the store rejects a statement it cannot parse.
Execute(stmt, c, tbl) ==
    IF c # "open" THEN Outcome("AttributeError", "con-is-none", {}, << >>)
    ELSE IF ~WellFormed(stmt) THEN Outcome("StoreError", "syntax", {}, << stmt >>)
    ELSE Outcome("ok", "", Selected(stmt, tbl.rows), << stmt >>)

(***************************************************************************)
(* ParquetLookup._query.  A predicate is a dict: a sequence of entries     *)
(* with distinct keys, in insertion order.                                 *)
(***************************************************************************)
Entry(key, val) == [key |-> key, val |-> val]

\* the entries the loop keeps: "if not value: continue"
Kept(pred) == SelectSeq(pred, LAMBDA e : Truthy(e.val))

RECURSIVE WhereTokens(_)
WhereTokens(kept) ==
    IF Len(kept) = 0 THEN << >>
    ELSE IF Len(kept) = 1 THEN << CondTok(kept[1].key) >>
    ELSE WhereTokens(SubSeq(kept, 1, Len(kept) - 1)) \o << AndTok, CondTok(kept[Len(kept)].key) >>

BuildStatement(pred) ==
    Statement(<< SelectTok >> \o WhereTokens(Kept(pred)),
              [i \in 1 .. Len(Kept(pred)) |-> Kept(pred)[i].val])

\* (variant: the empty-dict check is missing)
GenericQueryNoEmptyCheck(pred, c, tbl) ==
    IF \E i \in 1 .. Len(pred) : pred[i].key \notin QueryableColumns
    THEN Outcome("ValueError", "bad-key", {}, << >>)
    ELSE Execute(BuildStatement(pred), c, tbl)

\* (variant: the keys are checked after the empty values were dropped)
GenericQueryKeysAfterDrop(pred, c, tbl) ==
    IF Len(pred) = 0 THEN Outcome("ValueError", "empty-predicate", {}, << >>)
    ELSE IF \E i \in 1 .. Len(Kept(pred)) : Kept(pred)[i].key \notin QueryableColumns
    THEN Outcome("ValueError", "bad-key", {}, << >>)
    ELSE Execute(BuildStatement(pred), c, tbl)

GenericQuery(pred, c, tbl) ==
    IF Len(pred) = 0 THEN Outcome("ValueError", "empty-predicate", {}, << >>)
    ELSE IF \E i \in 1 .. Len(pred) : pred[i].key \notin QueryableColumns
    THEN Outcome("ValueError", "bad-key", {}, << >>)
    ELSE Execute(BuildStatement(pred), c, tbl)

(***************************************************************************)
(* ManifestLookup._query(gene_id, tissue_id); None is the default of both. *)
(***************************************************************************)
\* the tissue-id normalisation: prefix stripping, then int()
TissueParam(t) == IF t.k = "str" THEN IntV(IntOf(StripPrefixes(t.s))) ELSE t
TissueParses(t) == t.k = "str" => IntLiteral(StripPrefixes(t.s))

ManifestStatement(g, t) ==
    LET gtok == IF g.k # "none" THEN << CondTok("gene_id") >> ELSE << >>
        gpar == IF g.k # "none" THEN << g >> ELSE << >>
        ttok == IF t.k = "none" THEN << >>
                ELSE (IF Len(gpar) > 0 THEN << AndTok >> ELSE << >>) \o << CondTok("tissue_id") >>
        tpar == IF t.k = "none" THEN << >> ELSE << TissueParam(t) >>
    IN Statement(<< SelectTok >> \o gtok \o ttok, gpar \o tpar)

ManifestQuery(g, t, c, tbl) ==
    IF ~(Truthy(g) \/ Truthy(t)) THEN Outcome("ValueError", "empty-predicate", {}, << >>)
    ELSE IF ~TissueParses(t) THEN Outcome("ValueError", "int-parse", {}, << >>)
    ELSE Execute(ManifestStatement(g, t), c, tbl)

(***************************************************************************)
(* The arguments the operations are called with.                           *)
(***************************************************************************)
BoolV(b) == [k |-> "bool", s |-> << >>, n |-> IF b THEN 1 ELSE 0]

GeneArgs == {NoneV, StrV(<< >>)} \cup { StrV(g) : g \in Genes }
TissueForms(n) ==
    { IntV(n), StrV(Dec(n)), StrV(ModelPrefix \o Dec(n)), StrV(TissuePrefix \o Dec(n)) }
TissueArgs ==
    {NoneV, StrV(<< >>), StrV(<<"x">>)}
    \cup UNION { TissueForms(n) : n \in TissueIds }
    \cup { StrV(ModelPrefix \o TissuePrefix \o Dec(n)) : n \in TissueIds }

PredKeys == <<"gene_id", "tissue_id", "file_path">>
PredValues(key) ==
    CASE key = "gene_id" -> GeneArgs
      [] key = "tissue_id" -> {NoneV} \cup { IntV(n) : n \in TissueIds }
      [] OTHER -> {NoneV, StrV(<<"k1">>)}

RECURSIVE PredicatesUpTo(_)
PredicatesUpTo(n) ==
    IF n = 0 THEN { << >> }
    ELSE LET P == PredicatesUpTo(n - 1) IN
         P \cup UNION { { Append(p, Entry(PredKeys[i], v)) : p \in P, v \in PredValues(PredKeys[i]) } :
                         i \in 1 .. Len(PredKeys) }
DistinctKeys(p) == \A i, j \in 1 .. Len(p) : p[i].key = p[j].key => i = j
\* dicts of at most MaxPred entries
Predicates == { p \in PredicatesUpTo(MaxPred) : DistinctKeys(p) }

\* The caller holds a constructed engine.
Constructed == pc = "ready" /\ alive
\* ... and is not inside a call: calls are synchronous, one at a time.
Idle == Constructed /\ last.op = "none"

Called(op, pred, o) ==
    [NoCall EXCEPT !.op = op, !.pred = pred, !.status = o.status, !.what = o.what,
                   !.rows = o.rows, !.stmts = o.stmts]

GenePred(g) == << Entry("gene_id", g) >>
TissuePred(t) == << Entry("tissue_id", t) >>
PairPred(g, t) == << Entry("gene_id", g), Entry("tissue_id", t) >>

\* ParquetLookup._query
Query ==
    /\ Idle /\ kind = "generic"
    /\ \E pred \in Predicates :
         last' = Called("query", pred, GenericQuery(pred, con, table))
    /\ UNCHANGED <<gvars, kind, src, pc, alive, bucket, localPath, con, table, indexes, cache>>

\* ParquetLookup._exists
Exists ==
    /\ Idle /\ kind = "generic"
    /\ \E pred \in Predicates :
         LET o == GenericQuery(pred, con, table) IN
         last' = [Called("exists", pred, o) EXCEPT
                    !.val = IF o.status = "ok" THEN BoolV(Cardinality(o.rows) > 0) ELSE NoneV]
    /\ UNCHANGED <<gvars, kind, src, pc, alive, bucket, localPath, con, table, indexes, cache>>

\* get_unique(column_name) of both classes
UniqueOutcome(col, c, tbl) ==
    IF col \notin QueryableColumns THEN Outcome("ValueError", "bad-column", {}, << >>)
    ELSE Execute(Statement(<< DistinctTok(col) >>, << >>), c, tbl)

GetUnique ==
    /\ Idle
    /\ \E i \in 1 .. Len(PredKeys) :
         LET col == PredKeys[i]
             o == UniqueOutcome(col, con, table) IN
         last' = [Called("get_unique", << Entry(col, NoneV) >>, o) EXCEPT
                    !.rows = {},
                    !.vals = IF o.status = "ok" THEN { Cell(r, col) : r \in table.rows } ELSE {}]
    /\ UNCHANGED <<gvars, kind, src, pc, alive, bucket, localPath, con, table, indexes, cache>>

\* ManifestLookup.exists
ManifestExists ==
    /\ Idle /\ kind = "manifest"
    /\ \E g \in GeneArgs, t \in TissueArgs :
         LET o == ManifestQuery(g, t, con, table) IN
         last' = [Called("exists", PairPred(g, t), o) EXCEPT
                    !.val = IF o.status = "ok" THEN BoolV(Cardinality(o.rows) > 0) ELSE NoneV]
    /\ UNCHANGED <<gvars, kind, src, pc, alive, bucket, localPath, con, table, indexes, cache>>

\* ManifestLookup.get_records_for_gene
GetRecordsForGene ==
    /\ Idle /\ kind = "manifest"
    /\ \E g \in GeneArgs :
         last' = Called("get_records_for_gene", GenePred(g), ManifestQuery(g, NoneV, con, table))
    /\ UNCHANGED <<gvars, kind, src, pc, alive, bucket, localPath, con, table, indexes, cache>>

\* ManifestLookup.get_records_for_tissue
GetRecordsForTissue ==
    /\ Idle /\ kind = "manifest"
    /\ \E t \in TissueArgs :
         last' = Called("get_records_for_tissue", TissuePred(t), ManifestQuery(NoneV, t, con, table))
    /\ UNCHANGED <<gvars, kind, src, pc, alive, bucket, localPath, con, table, indexes, cache>>

\* ManifestLookup.get_s3_file_path: result[0].file_path, the store's first row
GetS3FilePath ==
    /\ Idle /\ kind = "manifest"
    /\ \E g \in GeneArgs, t \in TissueArgs :
         LET o == ManifestQuery(g, t, con, table) IN
         IF o.status = "ok" /\ o.rows # {}
         THEN \E first \in o.rows :
                last' = [Called("get_s3_file_path", PairPred(g, t), o) EXCEPT
                           !.val = StrV(<< first.file_path >>)]
         ELSE last' = Called("get_s3_file_path", PairPred(g, t), o)
    /\ UNCHANGED <<gvars, kind, src, pc, alive, bucket, localPath, con, table, indexes, cache>>

\* ManifestLookup.get_file_path: get_s3_file_path, then _read_s3_file
GetFilePath ==
    /\ Idle /\ kind = "manifest"
    /\ \E g \in GeneArgs, t \in TissueArgs :
         LET o == ManifestQuery(g, t, con, table)
             call == Called("get_file_path", PairPred(g, t), o) IN
         IF o.status = "ok" /\ o.rows # {}
         THEN \E first \in o.rows, ok \in BOOLEAN :
                IF first.file_path = ""
                THEN last' = call /\ cache' = cache
                ELSE LET r == ReadS3File(kind, first.file_path, bucket, TRUE, cache, ok) IN
                     /\ cache' = r.files
                     /\ last' = [call EXCEPT !.status = r.status, !.what = r.what,
                                             !.loc = first.file_path,
                                             !.path = r.path, !.fetched = r.fetched]
         ELSE last' = call /\ cache' = cache
    /\ UNCHANGED <<gvars, kind, src, pc, alive, bucket, localPath, con, table, indexes>>

\* close(): "if hasattr(self, 'con') and self.con"
Released(c) == IF c = "open" THEN "none" ELSE c

Close ==
    /\ Idle
    /\ con' = Released(con)
    /\ last' = [NoCall EXCEPT !.op = "close"]
    /\ UNCHANGED <<gvars, kind, src, pc, alive, bucket, localPath, table, indexes, cache>>

\* __exit__: the end of a with block
ContextExit ==
    /\ Idle
    /\ con' = Released(con)
    /\ last' = [NoCall EXCEPT !.op = "__exit__"]
    /\ UNCHANGED <<gvars, kind, src, pc, alive, bucket, localPath, table, indexes, cache>>

\* __del__: runs once nothing refers to the object any more, which is when
\* the constructor raised or when the caller dropped the engine.
Finalize ==
    /\ alive /\ (pc = "failed" \/ Idle)
    /\ alive' = FALSE
    /\ con' = Released(con)
    /\ UNCHANGED <<gvars, kind, src, pc, bucket, localPath, table, indexes, cache, last>>

\* The call returns to the caller, who takes its result or its exception.
Return ==
    /\ Constructed /\ last.op # "none"
    /\ last' = NoCall
    /\ UNCHANGED <<gvars, kind, src, pc, alive, bucket, localPath, con, table, indexes, cache>>

Next ==
    \/ GetLocalPath
    \/ LoadFile
    \/ Connect
    \/ LoadTable
    \/ CheckSchema
    \/ CreateIndexes
    \/ Query
    \/ Exists
    \/ GetUnique
    \/ ManifestExists
    \/ GetRecordsForGene
    \/ GetRecordsForTissue
    \/ GetS3FilePath
    \/ GetFilePath
    \/ Close
    \/ ContextExit
    \/ Finalize
    \/ Return

Spec == Init /\ [][Next]_vars

(***************************************************************************)
(* Lifecycle and call vocabulary used by the properties.                   *)
(***************************************************************************)
Phase ==
    CASE pc = "new" -> "Unopened"
      [] pc \in {"resolved", "connected", "loaded", "checked"} -> "Loading"
      [] pc = "failed" -> "Failed"
      [] pc = "ready" /\ alive /\ con = "open" -> "Ready"
      [] OTHER -> "Closed"

PhaseRank(ph) ==
    CASE ph = "Unopened" -> 0
      [] ph = "Loading" -> 1
      [] ph = "Ready" -> 2
      [] OTHER -> 3

QueryOps == {"query", "exists", "get_records_for_gene", "get_records_for_tissue",
             "get_s3_file_path", "get_file_path"}
EngineOps == QueryOps \cup {"get_unique"}
\* the caller closed the engine and still holds it
ClosedByCaller == Constructed /\ con = "none"

(***************************************************************************)
(* C1. close() is idempotent, and after close() every later operation      *)
(* fails with StateError: none returns a result or silently does nothing,  *)
(* and a second close() succeeds.                                          *)
(* The code has no state check: a call that reaches the released           *)
(* connection dies on None (AttributeError), one whose arguments are       *)
(* rejected first raises ValueError.                                       *)
(***************************************************************************)
C1_AfterCloseStateError ==
    ClosedByCaller =>
        /\ (last.op \in EngineOps => last.status = "StateError")
        /\ (last.op \in {"close", "__exit__"} => last.status = "ok")

(***************************************************************************)
(* C2. The lifecycle only moves forward, Unopened -> Loading -> Ready ->   *)
(* Closed: each step of open runs on the result of the one before it       *)
(* (resolve, connect, load, schema check, index), Ready is entered only    *)
(* from the last step with the file resolved, the table loaded, every      *)
(* required column present and every index built; a failed open never      *)
(* becomes Ready, and neither does a closed engine.                        *)
(***************************************************************************)
C2_Step ==
    /\ PhaseRank(Phase') >= PhaseRank(Phase)
    /\ (Phase = "Failed" => Phase' \in {"Failed", "Closed"} /\ pc' = "failed")
    /\ (Phase = "Closed" => Phase' = "Closed")
    /\ (pc' = "connected" /\ pc # "connected" => pc = "resolved" /\ localPath # NoPath)
    /\ (pc' = "loaded" /\ pc # "loaded" => pc = "connected" /\ con = "open")
    /\ (pc' = "checked" /\ pc # "checked" =>
            pc = "loaded" /\ table = [cols |-> src.cols, rows |-> src.rows])
    /\ (Phase' = "Ready" /\ Phase # "Ready" =>
            /\ pc = "checked"
            /\ localPath' # NoPath /\ PathExists(localPath', cache')
            /\ con' = "open"
            /\ table' = [cols |-> src.cols, rows |-> src.rows]
            /\ RequiredSet \subseteq table'.cols
            /\ indexes' = { IndexSpec[i] : i \in 1 .. Len(IndexSpec) })

\* C2: every step of every behaviour moves the lifecycle forward as C2_Step says.
C2_LifecycleForward == [][C2_Step]_vars

\* an operation was attempted on an engine that was Ready and then closed
C2_Witness == ClosedByCaller /\ last.op \in QueryOps /\ table.rows # {}

(***************************************************************************)
(* C3. The connection acquired during open is released on every exit path: *)
(* no engine that failed to open, and no closed engine, still holds it.    *)
(* The code leaves the connection open when _load_data raises; only the    *)
(* finalizer (__del__) releases it.                                        *)
(***************************************************************************)
C3_NoConnectionAfterFailure ==
    (pc = "failed" \/ Phase = "Closed") => con # "open"

(***************************************************************************)
(* C4. open of a source that is no remote reference and whose local path   *)
(* does not exist fails with FileNotFoundError, and no connection is       *)
(* created, in both classes.                                               *)
(* ParquetLookup._get_local_path formats self.local_file_path into the     *)
(* message before that attribute exists: AttributeError.                   *)
(***************************************************************************)
C4_MissingFileNotFound ==
    (~src.remote /\ ~src.exists /\ pc # "new") =>
        /\ pc = "failed"
        /\ last.status = "FileNotFoundError"
        /\ con = "absent"

(***************************************************************************)
(* C5. open of a file that lacks required columns fails with SchemaError   *)
(* (ValueError) whose message names exactly the absent required columns;   *)
(* the check follows the load and precedes the indexes: no index exists    *)
(* and the engine never becomes Ready.                                     *)
(***************************************************************************)
LacksColumns == src.valid /\ ~(RequiredSet \subseteq src.cols)

\* C5: a loaded file lacking required columns is rejected, naming exactly those columns, before any index.
C5_SchemaError ==
    LacksColumns =>
        /\ pc \notin {"checked", "ready"}
        /\ indexes = {}
        /\ (pc = "failed" /\ con # "absent" =>
                /\ last.op = "open" /\ last.status = "ValueError"
                /\ last.what = "missing-columns"
                /\ last.missing = { c \in RequiredSet : c \notin src.cols }
                /\ table.cols = src.cols)

\* a file lacking two required columns was loaded and rejected
C5_Witness ==
    /\ pc = "failed" /\ last.what = "missing-columns"
    /\ Cardinality(last.missing) = 2 /\ "extra" \in table.cols

(***************************************************************************)
(* C6. A query with an empty predicate (an empty dict; for ManifestLookup  *)
(* neither gene_id nor tissue_id given) fails with QueryError (ValueError) *)
(* whatever the table holds, sends nothing to the store and leaves the     *)
(* engine as it was.                                                       *)
(***************************************************************************)
EmptyPredicate(l) ==
    /\ l.op \in QueryOps
    /\ IF kind = "generic" THEN Len(l.pred) = 0
       ELSE \A i \in 1 .. Len(l.pred) : l.pred[i].val = NoneV

C6_Step ==
    (last.op = "none" /\ EmptyPredicate(last')) =>
        /\ last'.status = "ValueError" /\ last'.what = "empty-predicate"
        /\ last'.stmts = << >> /\ last'.fetched = << >>
        /\ last'.rows = {} /\ last'.val = NoneV
        /\ UNCHANGED <<pc, alive, con, table, indexes, cache, localPath>>

\* C6: every call with an empty predicate raises ValueError, sends nothing and changes nothing.
C6_EmptyPredicateRejected == [][C6_Step]_vars

\* an empty predicate was put to a Ready engine whose table has rows
C6_Witness ==
    /\ EmptyPredicate(last) /\ Phase = "Ready" /\ table.rows # {}
    /\ last.status = "ValueError"

(***************************************************************************)
(* C7. A query (generic framework) whose predicate has a key outside the   *)
(* queryable columns fails with QueryError (ValueError), whatever the      *)
(* other entries are and also when the offending value is None/empty: the  *)
(* key check comes before empty values are dropped.  Nothing is sent to    *)
(* the store.                                                              *)
(***************************************************************************)
HasForeignKey(pred) == \E i \in 1 .. Len(pred) : pred[i].key \notin QueryableColumns

\* C7: a predicate with a key outside the queryable columns raises ValueError before anything is sent.
C7_ForeignKeyRejected ==
    (kind = "generic" /\ last.op \in {"query", "exists"} /\ HasForeignKey(last.pred)) =>
        /\ last.status = "ValueError" /\ last.what = "bad-key"
        /\ last.stmts = << >> /\ last.rows = {} /\ last.val = NoneV

\* the foreign key carries None, beside a queryable entry with a real value
C7_Witness ==
    /\ kind = "generic" /\ last.op = "query" /\ Phase = "Ready" /\ table.rows # {}
    /\ \E i, j \in 1 .. Len(last.pred) :
         /\ last.pred[i].key \notin QueryableColumns /\ last.pred[i].val = NoneV
         /\ last.pred[j].key \in QueryableColumns /\ Truthy(last.pred[j].val)
    /\ last.status = "ValueError"

(***************************************************************************)
(* C8. Entries whose value is empty/unset (None, "") are dropped: a        *)
(* predicate over queryable columns with at least one real value selects   *)
(* exactly the rows satisfying all its entries with a real value, in the   *)
(* generic query and in the gene/tissue methods; a placeholder neither     *)
(* narrows the result nor causes an error.                                 *)
(* ParquetLookup drops every falsy value, 0 included; ManifestLookup       *)
(* guards with truthiness but filters with "is not None".                  *)
(***************************************************************************)
Placeholder(v) == v.k = "none" \/ (v.k = "str" /\ Len(v.s) = 0)
\* values of the column's own type (tissue ids as integers)
TypedEntry(e) ==
    \/ Placeholder(e.val)
    \/ e.key = "gene_id" /\ e.val.k = "str"
    \/ e.key = "tissue_id" /\ e.val.k = "int"
RealRows(pred, rows) ==
    { r \in rows : \A i \in 1 .. Len(pred) :
                      Placeholder(pred[i].val) \/ Cell(r, pred[i].key) = pred[i].val }

\* C8: a predicate with a real value selects exactly the rows matching its real-valued entries.
C8_PlaceholdersDropped ==
    ( /\ Phase = "Ready" /\ last.op \in QueryOps \ {"get_file_path"}
      /\ ~HasForeignKey(last.pred)
      /\ \A i \in 1 .. Len(last.pred) : TypedEntry(last.pred[i])
      /\ \E i \in 1 .. Len(last.pred) : ~Placeholder(last.pred[i].val) )
    => /\ last.status = "ok"
       /\ last.rows = RealRows(last.pred, table.rows)

(***************************************************************************)
(* C9. Tissue-id normalisation is consistent: for every storable tissue id *)
(* n (0 included) each domain method has the same outcome for "model_n",   *)
(* "tissue_n", "n" and the integer n.                                      *)
(* For n = 0 without a gene the integer is falsy and the guard of _query   *)
(* raises, while the three strings are truthy and select the rows.         *)
(***************************************************************************)
\* the query part of a call: whether the lookup succeeded, and its rows
QueryPart(status, what, rows) ==
    [status |-> IF what = "s3-download" THEN "ok" ELSE status, rows |-> rows]
TissueOf(pred) == pred[Len(pred)].val
GeneOf(pred) == IF Len(pred) = 2 THEN pred[1].val ELSE NoneV
TissueMethods == {"exists", "get_records_for_tissue", "get_s3_file_path", "get_file_path"}

\* C9: the outcome of a tissue lookup is the same for the four forms of the same tissue id.
C9_TissueFormsAgree ==
    (kind = "manifest" /\ Constructed /\ last.op \in TissueMethods) =>
        \A n \in TissueIds :
            TissueOf(last.pred) \in TissueForms(n) =>
                \A f \in TissueForms(n) :
                    LET o == ManifestQuery(GeneOf(last.pred), f, con, table) IN
                    QueryPart(last.status, last.what, last.rows)
                        = QueryPart(o.status, o.what, o.rows)

(***************************************************************************)
(* C10. get_file_path(gene, tissue), called with a gene and a tissue id.   *)
(* As claimed: it returns None iff no row matches the pair, then without   *)
(* any transfer; otherwise it uses the location of one matching row,       *)
(* fetches it only if that location is a remote reference, and returns a   *)
(* local path at which the file exists.  (Stated for an engine opened on a *)
(* remote manifest, so that a bucket is known, and for matching rows that  *)
(* hold a location.)                                                       *)
(* The code fetches every location as a key of the engine's bucket.        *)
(***************************************************************************)
\* the call names a gene and the tissue id n in one of its forms
PairCall(l, n) ==
    /\ l.op = "get_file_path"
    /\ l.pred[1].val.k = "str" /\ l.pred[1].val.s \in Genes
    /\ l.pred[2].val \in TissueForms(n)
PairRows(l, n) ==
    { r \in table.rows : r.gene_id = l.pred[1].val.s /\ r.tissue_id = n }
ReturnedNone(l) == l.status = "ok" /\ l.path = NoPath

\* C10 as claimed: None iff no match; a transfer only for a remote reference.
C10_AsClaimed ==
    \A n \in TissueIds :
        (Phase = "Ready" /\ PairCall(last, n)) =>
            LET m == PairRows(last, n) IN
            (bucket /\ \A r \in m : r.file_path # "") =>
            /\ (ReturnedNone(last) <=> m = {})
            /\ (m = {} => last.fetched = << >>)
            /\ (m # {} =>
                  /\ \E r \in m : r.file_path = last.loc
                  /\ (last.fetched # << >> <=> last.loc \in RemoteRefs)
                  /\ (last.status = "ok" => PathExists(last.path, cache)))

(***************************************************************************)
(* C10, amended.  It returns None iff no row matches the pair or the       *)
(* location of the row used is empty, then without any transfer.           *)
(* Otherwise it takes the location of one matching row and always fetches  *)
(* it as an object key of the engine's bucket, remote reference or not: a  *)
(* successful transfer returns tmp_dir joined with the location, where the *)
(* file then exists; a failed one (always, when the manifest was opened    *)
(* from a local path and there is no bucket) raises ValueError.            *)
(***************************************************************************)
\* C10 amended: None iff no match or empty location; otherwise always one transfer of the location.
C10_FilePath ==
    \A n \in TissueIds :
        (Phase = "Ready" /\ PairCall(last, n)) =>
            LET m == PairRows(last, n) IN
            /\ (m = {} => ReturnedNone(last) /\ last.fetched = << >>)
            /\ (m # {} =>
                  /\ \E r \in m : r.file_path = last.loc
                  /\ IF last.loc = ""
                     THEN ReturnedNone(last) /\ last.fetched = << >>
                     ELSE /\ last.fetched = << last.loc >>
                          /\ \/ /\ last.status = "ok" /\ bucket
                                /\ last.path = TmpPath(last.loc)
                                /\ cache[last.loc] = "complete"
                             \/ /\ last.status = "ValueError" /\ last.what = "s3-download"
                                /\ last.path = NoPath)

\* two rows match, the one used holds a plain key, and it was fetched
C10_Witness ==
    /\ Phase = "Ready" /\ PairCall(last, WideTissue)
    /\ Cardinality(PairRows(last, WideTissue)) = 2
    /\ last.loc \notin RemoteRefs /\ last.fetched = << last.loc >>
    /\ last.status = "ok" /\ last.path = TmpPath(last.loc)

(***************************************************************************)
(* C11. The object cache.  The local path of a key is always tmp_dir       *)
(* joined with the key.  As claimed, once a transfer of a key has          *)
(* succeeded (the file at its path is complete), a later get_file_path     *)
(* that resolves the same key returns that path, starts no transfer and    *)
(* leaves the file as it is.                                               *)
(* _read_s3_file has no cache check: each call re-opens the file for       *)
(* writing, which truncates it, and transfers the object again.            *)
(***************************************************************************)
C11_Step ==
    \A k \in CacheKeys :
        (cache[k] = "complete" /\ last.op = "none"
            /\ last'.op = "get_file_path" /\ last'.loc = k) =>
        /\ last'.status = "ok" /\ last'.path = TmpPath(k)
        /\ last'.fetched = << >>
        /\ cache'[k] = "complete"

\* C11: after one successful resolve of a key, a later resolve of it returns the same path with no new transfer and no truncation.
C11_ResolvedOnce == [][C11_Step]_vars

(***************************************************************************)
(* C19. Every statement sent to the store is well formed: at least one     *)
(* condition after WHERE, conditions joined by AND only, one parameter per *)
(* placeholder, in the order of the conditions.                            *)
(* ParquetLookup._query drops the falsy values after its checks and sends  *)
(* what is left, also when nothing is left.                                *)
(***************************************************************************)
\* the parameters are the values of the conditions' keys, in order
ParamsInOrder(stmt, pred) ==
    \A i \in 1 .. Len(stmt.params) :
        \E j \in 1 .. Len(pred) :
            /\ pred[j].key = stmt.tokens[2 * i].col
            /\ \/ pred[j].val = stmt.params[i]
               \/ pred[j].key = "tissue_id" /\ TissueParam(pred[j].val) = stmt.params[i]

\* C19: every statement a query operation sends has a condition after WHERE, one placeholder per parameter in order, and AND between conditions.
C19_StatementsWellFormed ==
    last.op \in QueryOps =>
        \A i \in 1 .. Len(last.stmts) :
            /\ WellFormed(last.stmts[i])
            /\ Len(last.stmts[i].params) >= 1
            /\ ParamsInOrder(last.stmts[i], last.pred)

(***************************************************************************)
(* The generator: src/src/generator/parquet_indexer.py.                    *)
(***************************************************************************)
\* no engine exists in a generator process
LookupOff ==
    /\ kind = "none"
    /\ src = Source(FALSE, FALSE, FALSE, FALSE, {}, {}, 0)
    /\ pc = "off"
    /\ alive = FALSE
    /\ bucket = FALSE
    /\ localPath = NoPath
    /\ con = "absent"
    /\ table = EmptyTable
    /\ indexes = {}
    /\ cache = [k \in CacheKeys |-> "absent"]
    /\ last = NoCall

(***************************************************************************)
(* Row-group sizing: "min(50000, max(1000, len(df) // 10))".               *)
(***************************************************************************)
UpperBound == 50000
LowerBound == 1000
Divisor == 10

Min(a, b) == IF a <= b THEN a ELSE b
Max(a, b) == IF a >= b THEN a ELSE b

\* (variant: the bounds are applied the other way round)
RowGroupSizeSwapped(n) == Max(UpperBound, Min(LowerBound, n \div Divisor))

RowGroupSize(n) == Min(UpperBound, Max(LowerBound, n \div Divisor))

\* The record counts the sizing is computed for: the small ones, those
\* around the points where a bound starts or stops binding, and large ones.
SmallCount == 40
Around == 12
RecordCounts ==
    (1 .. SmallCount)
    \cup { 5000, 2000000 }
    \cup { 10000 + d - Around : d \in 0 .. 2 * Around }
    \cup { 500000 + d - Around : d \in 0 .. 2 * Around }
    \cup { 10000 * k : k \in 1 .. 60 }

\* write_optimized_parquet is handed a validated table of any of these sizes
SizingInit ==
    /\ LookupOff
    /\ entry = "write_optimized_parquet"
    /\ gpc = "sizing"
    /\ input_path = NoInput
    /\ chunk_size = 0
    /\ total_lines = 0
    /\ total_valid = 0
    /\ all_data = << >>
    /\ log = << >>
    /\ df = EmptyFrame
    /\ output_file = NoFile
    /\ exit_code = Running
    /\ record_count \in RecordCounts
    /\ optimal_row_group_size = 0

\* line 186
ComputeRowGroupSize ==
    /\ gpc = "sizing"
    /\ gpc' = "sized"
    /\ optimal_row_group_size' = RowGroupSize(record_count)
    /\ UNCHANGED <<lvars, entry, input_path, chunk_size, total_lines, total_valid,
                   all_data, log, df, output_file, exit_code, record_count>>

SizingNext == ComputeRowGroupSize

SizingSpec == SizingInit /\ [][SizingNext]_vars

(***************************************************************************)
(* C14. The row-group size.                                                *)
(***************************************************************************)
\* C14: for every record count >= 1 the size is min(50000, max(1000, floor(count / 10))), lies in [1000, 50000], does not decrease with the count, is 1000 up to 10,009 records and 50000 from 500,000 records up.
C14_RowGroupSize ==
    gpc = "sized" =>
        LET n == record_count
            tenth == n \div 10
        IN
        /\ n >= 1
        /\ optimal_row_group_size =
             (IF tenth < 1000 THEN 1000 ELSE IF tenth > 50000 THEN 50000 ELSE tenth)
        /\ optimal_row_group_size \in 1000 .. 50000
        /\ \A m \in RecordCounts : m <= n => RowGroupSize(m) <= optimal_row_group_size
        /\ (n <= 10009 => optimal_row_group_size = 1000)
        /\ (n >= 500000 => optimal_row_group_size = 50000)

\* the sizes at and beside the points where the bounds bind, and a size strictly between the bounds
C14_Witness ==
    /\ gpc = "sized"
    /\ record_count = 250000 /\ optimal_row_group_size = 25000
    /\ RowGroupSize(5000) = 1000 /\ RowGroupSize(2000000) = 50000
    /\ RowGroupSize(10009) = 1000 /\ RowGroupSize(10010) = 1001
    /\ RowGroupSize(499999) = 49999 /\ RowGroupSize(500000) = 50000

(***************************************************************************)
(* Text.  A line is the sequence of its characters as readline() returns   *)
(* it, the terminator included.                                            *)
(***************************************************************************)
Whitespace == {" ", "\t", "\n"}

RECURSIVE LStrip(_)
LStrip(s) == IF Len(s) > 0 /\ s[1] \in Whitespace THEN LStrip(Tail(s)) ELSE s
RECURSIVE RStrip(_)
RStrip(s) ==
    IF Len(s) > 0 /\ s[Len(s)] \in Whitespace THEN RStrip(SubSeq(s, 1, Len(s) - 1)) ELSE s
\* str.strip()
Strip(s) == RStrip(LStrip(s))

(***************************************************************************)
(* The pattern r'.*/v1/ad/([^/]+)/model_tissue_(\d+)\.tl$', searched in a  *)
(* stripped line: any prefix, "/v1/ad/", a gene without "/", then          *)
(* "/model_tissue_", digits, ".tl" and the end of the line.                *)
(***************************************************************************)
PatternDir == <<"/", "v", "1", "/", "a", "d", "/">>
PatternFile == <<"/">> \o ModelPrefix \o TissuePrefix
PatternExt == <<".", "t", "l">>

\* the characters the pattern spells out
FixedLen == Len(PatternDir) + Len(PatternFile) + Len(PatternExt)

\* the lengths (gene, digits) of the capture groups of every way the
\* pattern matches s; each group has a character at least
Matches(s) ==
    { gd \in (1 .. Len(s) - FixedLen - 1) \X (1 .. Len(s) - FixedLen - 1) :
        LET g == gd[1]
            d == gd[2]
            a == Len(s) - FixedLen - g - d
            gene_at == a + Len(PatternDir)
            file_at == gene_at + g
            digits_at == file_at + Len(PatternFile)
        IN
        /\ a >= 0
        /\ \A i \in 1 .. a : s[i] # "\n"
        /\ SubSeq(s, a + 1, gene_at) = PatternDir
        /\ \A i \in gene_at + 1 .. file_at : s[i] # "/"
        /\ SubSeq(s, file_at + 1, digits_at) = PatternFile
        /\ \A i \in digits_at + 1 .. digits_at + d : IsDigit(s[i])
        /\ SubSeq(s, digits_at + d + 1, Len(s)) = PatternExt }

\* extract_gene_and_tissue_id: the two groups, or (None, None)
ExtractGeneAndTissueId(s) ==
    IF Matches(s) = {}
    THEN [matched |-> FALSE, gene_id |-> << >>, tissue_id |-> << >>]
    ELSE LET gd == CHOOSE m \in Matches(s) : TRUE
             digits_at == Len(s) - Len(PatternExt) - gd[2] IN
         [matched |-> TRUE,
          gene_id |-> SubSeq(s, digits_at - Len(PatternFile) - gd[1] + 1, digits_at - Len(PatternFile)),
          tissue_id |-> SubSeq(s, digits_at + 1, digits_at + gd[2])]

(***************************************************************************)
(* Integers.  A Python int has no width; the model keeps one as its        *)
(* decimal digits (no leading zeros), with a leading "-" when negative.    *)
(***************************************************************************)
\* (variant: the digits are kept as the text has them)
CanonicalAsWritten(digits) == digits

RECURSIVE Canonical(_)
\* int(digits): leading zeros do not count
Canonical(digits) ==
    IF Len(digits) > 1 /\ digits[1] = "0" THEN Canonical(Tail(digits)) ELSE digits

RECURSIVE DigitsLeq(_, _)
\* a <= b, for two numbers without sign and without leading zeros
DigitsLeq(a, b) ==
    IF Len(a) # Len(b) THEN Len(a) < Len(b)
    ELSE IF Len(a) = 0 THEN TRUE
    ELSE IF a[1] # b[1] THEN DigitVal(a[1]) < DigitVal(b[1])
    ELSE DigitsLeq(Tail(a), Tail(b))

Int32Max == <<"2", "1", "4", "7", "4", "8", "3", "6", "4", "7">>
Int32MinMagnitude == <<"2", "1", "4", "7", "4", "8", "3", "6", "4", "8">>

\* a missing value (None / NaN) in a cell
Null == << "<NA>" >>

\* Series.between(-2147483648, 2147483647); a missing value is not between
Between(v) ==
    IF v = Null THEN FALSE
    ELSE IF v[1] = "-" THEN DigitsLeq(Tail(v), Int32MinMagnitude)
    ELSE DigitsLeq(v, Int32Max)

(***************************************************************************)
(* Log records.  Kept are the warnings, the errors and the reports that    *)
(* carry counts; a and b are the numbers in the message, text its line.    *)
(***************************************************************************)
Event(level, msg, a, b, text) ==
    [level |-> level, msg |-> msg, a |-> a, b |-> b, text |-> text]

\* a record: {'gene_id': .., 'tissue_id': .., 'file_path': ..}
Record(gene_id, tissue_id, file_path) ==
    [gene_id |-> gene_id, tissue_id |-> tissue_id, file_path |-> file_path]
NoRecord == Record(Null, Null, Null)

\* GeneTissueManifestGenerator.process_line(line, line_num): the record, or
\* None and a warning.  int() of a match of \d+ does not raise.
ProcessLine(line, line_num) ==
    LET m == ExtractGeneAndTissueId(line) IN
    IF ~m.matched
    THEN [none |-> TRUE, record |-> NoRecord,
          logged |-> << Event("warning", "could-not-extract", line_num, 0, line) >>]
    ELSE [none |-> FALSE,
          record |-> Record(m.gene_id, Canonical(m.tissue_id), line),
          logged |-> << >>]

\* A run: n consecutive copies of the same line.
Run(line, n) == [line |-> line, n |-> n]

RECURSIVE CountLines(_)
CountLines(runs) == IF runs = << >> THEN 0 ELSE Head(runs).n + CountLines(Tail(runs))

RECURSIVE DropLines(_, _)
\* what is left of a file after k lines were read
DropLines(runs, k) ==
    IF runs = << >> \/ k = 0 THEN runs
    ELSE IF Head(runs).n <= k THEN DropLines(Tail(runs), k - Head(runs).n)
    ELSE << Run(Head(runs).line, Head(runs).n - k) >> \o Tail(runs)

RECURSIVE TakeLines(_, _)
\* "for _ in range(chunk_size): line = file.readline() ..": the next k
\* lines, fewer at the end of the file
TakeLines(runs, k) ==
    IF runs = << >> \/ k = 0 THEN << >>
    ELSE IF Head(runs).n <= k THEN << Head(runs) >> \o TakeLines(Tail(runs), k - Head(runs).n)
    ELSE << Run(Head(runs).line, k) >>

RECURSIVE ProcessChunk(_, _)
\* _process_chunk(lines_chunk, chunk_start), without its closing log record:
\* the loop over the lines, line i (from 0) having number chunk_start + i + 1.
\* A run of blank lines is passed over in one go: each of them only advances i.
ProcessChunk(lines_chunk, chunk_start) ==
    IF lines_chunk = << >> THEN [data |-> << >>, invalid_count |-> 0, logged |-> << >>]
    ELSE
    LET r == Head(lines_chunk)
        line == Strip(r.line) IN
    IF r.n = 0 THEN ProcessChunk(Tail(lines_chunk), chunk_start)
    ELSE IF line = << >> THEN ProcessChunk(Tail(lines_chunk), chunk_start + r.n)
    ELSE
    LET one == ProcessLine(line, chunk_start + 1)
        rest == ProcessChunk(<< Run(r.line, r.n - 1) >> \o Tail(lines_chunk), chunk_start + 1)
    IN
    IF one.none
    THEN [data |-> rest.data, invalid_count |-> rest.invalid_count + 1,
          logged |-> one.logged \o rest.logged]
    ELSE [data |-> << one.record >> \o rest.data, invalid_count |-> rest.invalid_count,
          logged |-> rest.logged]

\* the closing log record of _process_chunk: only when a line was rejected
ChunkReport(c) ==
    IF c.invalid_count > 0
    THEN << Event("info", "processed-chunk", Len(c.data), c.invalid_count, << >>) >>
    ELSE << >>

(***************************************************************************)
(* DataFrames: the columns, and the rows in order.                         *)
(***************************************************************************)
Frame(cols, rows) == [cols |-> cols, rows |-> rows]

\* the characters of the gene ids used here, by code point
Alphabet == <<"A", "B">>
Ord(c) == CHOOSE i \in 1 .. Len(Alphabet) : Alphabet[i] = c

RECURSIVE StrLeq(_, _)
\* a <= b for two str
StrLeq(a, b) ==
    IF Len(a) = 0 THEN TRUE
    ELSE IF Len(b) = 0 THEN FALSE
    ELSE IF a[1] # b[1] THEN Ord(a[1]) < Ord(b[1])
    ELSE StrLeq(Tail(a), Tail(b))

\* df.sort_values('gene_id'): the default sort is not stable, so rows of
\* the same gene may come out in any order
SortValues(rows) ==
    { [i \in 1 .. Len(rows) |-> rows[p[i]]] : p \in
        { q \in Permutations(1 .. Len(rows)) :
            \A i \in 1 .. Len(rows) - 1 : StrLeq(rows[q[i]].gene_id, rows[q[i + 1]].gene_id) } }

\* df.isnull().sum(), added up over the columns
NullCount(f) ==
    Cardinality({ ic \in (1 .. Len(f.rows)) \X f.cols : f.rows[ic[1]][ic[2]] = Null })

\* df[~df['tissue_id'].between(-2147483648, 2147483647)]
InvalidTissues(f) == SelectSeq(f.rows, LAMBDA r : ~Between(r.tissue_id))

\* df['file_path'].duplicated().sum()
DuplicateCount(f) ==
    Cardinality({ i \in 1 .. Len(f.rows) :
                    \E j \in 1 .. i - 1 : f.rows[j].file_path = f.rows[i].file_path })

Raised(what, logged) == [status |-> "ValueError", what |-> what, logged |-> logged]

\* GeneTissueManifestGenerator._validate_dataframe(df)
ValidateDataframe(f) ==
    LET passed == << Event("info", "validation-passed", Len(f.rows), 0, << >>) >>
        nulls == IF NullCount(f) > 0
                 THEN << Event("warning", "null-values", NullCount(f), 0, << >>) >>
                 ELSE << >>
        dups == IF DuplicateCount(f) > 0
                THEN << Event("warning", "duplicate-file-paths", DuplicateCount(f), 0, << >>) >>
                ELSE << >>
    IN
    IF Len(f.rows) = 0 \/ f.cols = {} THEN Raised("empty", << >>)
    ELSE IF RequiredSet \ f.cols # {} THEN Raised("missing-columns", passed)
    ELSE IF Len(InvalidTissues(f)) > 0 THEN Raised("int32-range", passed \o nulls)
    ELSE [status |-> "ok", what |-> "", logged |-> passed \o nulls \o dups]

(***************************************************************************)
(* The inputs.                                                             *)
(***************************************************************************)
MaxLines == 3
DefaultChunkSize == 10000
ProgressEvery == 50000

Newline == <<"\n">>
BlankLine == <<" ">> \o Newline
\* the path of a gene and a tissue number
Path(gene, digits) == <<"a">> \o PatternDir \o gene \o PatternFile \o digits \o PatternExt
\* gene A, tissue 7
LineA == Path(<<"A">>, <<"7">>) \o Newline
\* gene B, tissue 012, with a blank before and after the path
LineB == <<" ">> \o Path(<<"B">>, <<"0", "1", "2">>) \o <<" ">> \o Newline
\* a tissue number of 2147483648
LineWide == Path(<<"A">>, Int32MinMagnitude) \o Newline
Garbage == <<"g", "/", "l">> \o Newline
Lines == {BlankLine, LineA, LineB, LineWide, Garbage}

RECURSIVE FilesUpTo(_)
FilesUpTo(n) ==
    IF n = 0 THEN { << >> }
    ELSE LET F == FilesUpTo(n - 1) IN
         F \cup { Append(f, Run(l, 1)) : f \in { g \in F : Len(g) = n - 1 }, l \in Lines }
\* the files of at most MaxLines lines
SmallFiles == FilesUpTo(MaxLines)

\* a long file: blank lines and one path at the end
LongFile(n) == << Run(BlankLine, n - 1), Run(LineA, 1) >>

Input(exists, fails_at, runs) == [exists |-> exists, fails_at |-> fails_at, runs |-> runs]
Call(input, size) == [input |-> input, chunk_size |-> size]

\* The calls of process_file_list.  generate_parquet_file passes no
\* chunk_size; the other sizes are those of a caller of process_file_list.
Calls ==
    { Call(NoInput, DefaultChunkSize) }
    \cup { Call(Input(TRUE, k, f), c) :
             k \in 0 .. 2, f \in SmallFiles, c \in {1, 2, DefaultChunkSize} }
    \cup { Call(Input(TRUE, 0, LongFile(n)), c) :
             n \in {50000, 60000, 150000}, c \in {DefaultChunkSize, 30000} }
    \cup { Call(Input(TRUE, 0, LongFile(60000)), 7) }

OldFile == [state |-> "old", rows |-> << >>, row_group_size |-> 0]

\* The tables a caller of write_optimized_parquet itself can hand over.
DirectRows ==
    { Record(<<"A">>, <<"7">>, <<"p">>),
      Record(Null, <<"7">>, <<"q">>),
      Record(<<"A">>, Null, <<"p">>),
      Record(<<"A">>, <<"7">>, Null),
      Record(<<"A">>, <<"-">> \o Int32MinMagnitude, <<"p">>),
      Record(<<"A">>, <<"-", "2", "1", "4", "7", "4", "8", "3", "6", "4", "9">>, <<"p">>) }
DirectFrames ==
    { Frame(c, r) : c \in { RequiredSet, RequiredSet \ {"file_path"}, {} }, r \in { << >> } }
    \cup { Frame(c, << r >>) : c \in { RequiredSet, RequiredSet \ {"file_path"} }, r \in DirectRows }
    \cup { Frame(RequiredSet, << r1, r2 >>) : r1 \in DirectRows, r2 \in DirectRows }

BuildInit ==
    /\ LookupOff
    /\ gpc = "start"
    /\ total_lines = 0
    /\ total_valid = 0
    /\ all_data = << >>
    /\ log = << >>
    /\ exit_code = Running
    /\ record_count = 0
    /\ optimal_row_group_size = 0
    /\ output_file \in {NoFile, OldFile}
    /\ \/ /\ entry = "generate_parquet_file"
          /\ \E c \in Calls : input_path = c.input /\ chunk_size = c.chunk_size
          /\ df = EmptyFrame
       \/ /\ entry = "write_optimized_parquet"
          /\ input_path = NoInput
          /\ chunk_size = 0
          /\ df \in DirectFrames

(***************************************************************************)
(* generate_parquet_file, step by step.  gpc: start -> reading -> built -> *)
(* transformed -> validated -> done, or -> exited when a step ends the     *)
(* process (sys.exit(1)) or, for a caller of write_optimized_parquet,      *)
(* raises.                                                                 *)
(***************************************************************************)
Generating == entry = "generate_parquet_file"

\* the reads of a chunk done so far
ChunksRead == (total_lines + chunk_size - 1) \div chunk_size
\* (variant: the line that follows a chunk is lost)
LinesChunkLosingOne ==
    TakeLines(DropLines(input_path.runs, IF total_lines > 0 THEN total_lines + 1 ELSE 0),
              chunk_size)

\* lines 114-119: the next chunk
LinesChunk == TakeLines(DropLines(input_path.runs, total_lines), chunk_size)

\* lines 131-135
Progress(lines, valid) ==
    IF lines % ProgressEvery = 0
    THEN << Event("info", "progress", lines, valid, << >>) >>
    ELSE << >>

\* sys.exit(1) after an error record; a caller of write_optimized_parquet
\* gets the exception itself
Fail(msg) ==
    /\ gpc' = "exited"
    /\ IF Generating
       THEN /\ exit_code' = "1"
            /\ log' = log \o << Event("error", msg, 0, 0, << >>) >>
       ELSE /\ exit_code' = "raised"
            /\ log' = log

\* lines 107-112: stat() and open(); a missing file ends the process
OpenInput ==
    /\ Generating /\ gpc = "start"
    /\ IF input_path.exists
       THEN gpc' = "reading" /\ UNCHANGED <<log, exit_code>>
       ELSE Fail("input-not-found")
    /\ UNCHANGED <<lvars, entry, input_path, chunk_size, total_lines, total_valid,
                   all_data, df, output_file, record_count, optimal_row_group_size>>

\* lines 140-142: a read raises
ReadFails ==
    /\ gpc = "reading" /\ input_path.fails_at = ChunksRead + 1
    /\ Fail("error-reading")
    /\ UNCHANGED <<lvars, entry, input_path, chunk_size, total_lines, total_valid,
                   all_data, df, output_file, record_count, optimal_row_group_size>>

\* lines 113-135: one turn of the loop
ReadChunk ==
    /\ gpc = "reading" /\ input_path.fails_at # ChunksRead + 1
    /\ LinesChunk # << >>
    /\ LET chunk_data == ProcessChunk(LinesChunk, total_lines) IN
       /\ all_data' = all_data \o chunk_data.data
       /\ total_lines' = total_lines + CountLines(LinesChunk)
       /\ total_valid' = total_valid + Len(chunk_data.data)
       /\ log' = log \o chunk_data.logged \o ChunkReport(chunk_data)
                     \o Progress(total_lines', total_valid')
    /\ UNCHANGED <<lvars, entry, gpc, input_path, chunk_size, df, output_file, exit_code,
                   record_count, optimal_row_group_size>>

\* lines 121-122, 144-151 and 218-220: the end of the file
EndOfInput ==
    /\ gpc = "reading" /\ input_path.fails_at # ChunksRead + 1
    /\ LinesChunk = << >>
    /\ IF all_data = << >>
       THEN /\ gpc' = "exited"
            /\ exit_code' = "1"
            /\ log' = log \o << Event("warning", "no-valid-paths", 0, 0, << >>),
                                Event("error", "no-data", 0, 0, << >>) >>
            /\ df' = EmptyFrame
       ELSE /\ gpc' = "built"
            /\ exit_code' = exit_code
            /\ log' = log \o << Event("info", "completed", total_lines, total_valid, << >>) >>
            /\ df' = Frame(RequiredSet, all_data)
    /\ UNCHANGED <<lvars, entry, input_path, chunk_size, total_lines, total_valid,
                   all_data, output_file, record_count, optimal_row_group_size>>

\* line 224: _df_transform
Transform ==
    /\ gpc = "built"
    /\ gpc' = "transformed"
    /\ \E rows \in SortValues(df.rows) : df' = [df EXCEPT !.rows = rows]
    /\ UNCHANGED <<lvars, entry, input_path, chunk_size, total_lines, total_valid,
                   all_data, log, output_file, exit_code, record_count,
                   optimal_row_group_size>>

\* line 177: write_optimized_parquet validates what it was handed
Validate ==
    /\ \/ Generating /\ gpc = "transformed"
       \/ ~Generating /\ gpc = "start"
    /\ LET v == ValidateDataframe(df) IN
       IF v.status = "ok"
       THEN gpc' = "validated" /\ log' = log \o v.logged /\ exit_code' = exit_code
       ELSE /\ gpc' = "exited"
            /\ exit_code' = IF Generating THEN "1" ELSE "raised"
            /\ log' = log \o v.logged \o
                      (IF Generating
                       THEN << Event("error", "error-writing", 0, 0, << >>) >> ELSE << >>)
    /\ UNCHANGED <<lvars, entry, input_path, chunk_size, total_lines, total_valid,
                   all_data, df, output_file, record_count, optimal_row_group_size>>

\* (variant: a failed write leaves what it had written so far)
WriteTableKeepsPartial ==
    /\ gpc = "validated"
    /\ record_count' = Len(df.rows)
    /\ optimal_row_group_size' = RowGroupSize(Len(df.rows))
    /\ \E ok \in BOOLEAN :
         IF ok
         THEN /\ output_file' = [state |-> "written", rows |-> df.rows,
                                 row_group_size |-> optimal_row_group_size']
              /\ gpc' = "done"
              /\ exit_code' = IF Generating THEN "0" ELSE "returned"
              /\ log' = log \o << Event("info", "written", optimal_row_group_size', 0, << >>) >>
         ELSE /\ output_file' = [state |-> "partial", rows |-> << >>,
                                 row_group_size |-> optimal_row_group_size']
              /\ Fail("error-writing")
    /\ UNCHANGED <<lvars, entry, input_path, chunk_size, total_lines, total_valid,
                   all_data, df>>

\* lines 179-200: the table is converted to the schema and written; a write
\* that raises leaves nothing behind (pq.write_table removes the file it
\* was writing, whatever was there before included)
WriteTable ==
    /\ gpc = "validated"
    /\ record_count' = Len(df.rows)
    /\ optimal_row_group_size' = RowGroupSize(Len(df.rows))
    /\ \E ok \in BOOLEAN :
         IF ok
         THEN /\ output_file' = [state |-> "written", rows |-> df.rows,
                                 row_group_size |-> optimal_row_group_size']
              /\ gpc' = "done"
              /\ exit_code' = IF Generating THEN "0" ELSE "returned"
              /\ log' = log \o << Event("info", "written", optimal_row_group_size', 0, << >>) >>
         ELSE /\ output_file' = NoFile
              /\ Fail("error-writing")
    /\ UNCHANGED <<lvars, entry, input_path, chunk_size, total_lines, total_valid,
                   all_data, df>>

BuildNext ==
    \/ OpenInput
    \/ ReadFails
    \/ ReadChunk
    \/ EndOfInput
    \/ Transform
    \/ Validate
    \/ WriteTable

BuildSpec == BuildInit /\ [][BuildNext]_vars

(***************************************************************************)
(* Vocabulary of the properties of the generator.                          *)
(***************************************************************************)
\* the lines read so far
LinesRead == TakeLines(input_path.runs, total_lines)

RECURSIVE SumB(_, _)
\* the second numbers of the log records with a given message, added up
SumB(records, msg) ==
    IF records = << >> THEN 0
    ELSE (IF Head(records).msg = msg THEN Head(records).b ELSE 0) + SumB(Tail(records), msg)
\* the rejected lines counted so far
InvalidCount == SumB(log, "processed-chunk")

\* process_file_list has started reading
Started == Generating /\ gpc # "start"
\* process_file_list has returned a table
Built == Generating /\ gpc \in {"built", "transformed", "validated", "done"}

\* what each line of the model is
PathLines ==
    { [line |-> LineA, record |-> Record(<<"A">>, <<"7">>, Path(<<"A">>, <<"7">>))],
      [line |-> LineB, record |-> Record(<<"B">>, <<"1", "2">>, Path(<<"B">>, <<"0", "1", "2">>))],
      [line |-> LineWide, record |-> Record(<<"A">>, Int32MinMagnitude, Path(<<"A">>, Int32MinMagnitude))] }
IsPathLine(l) == \E e \in PathLines : e.line = l
RecordOf(l) == (CHOOSE e \in PathLines : e.line = l).record

RECURSIVE Copies(_, _)
Copies(x, n) == IF n = 0 THEN << >> ELSE << x >> \o Copies(x, n - 1)

RECURSIVE RecordsOf(_)
\* one record for every path line, in the order of the lines
RecordsOf(runs) ==
    IF runs = << >> THEN << >>
    ELSE (IF IsPathLine(Head(runs).line) THEN Copies(RecordOf(Head(runs).line), Head(runs).n)
          ELSE << >>) \o RecordsOf(Tail(runs))

RECURSIVE CountOf(_, _)
\* the number of lines that are in a set of lines
CountOf(runs, S) ==
    IF runs = << >> THEN 0
    ELSE (IF Head(runs).line \in S THEN Head(runs).n ELSE 0) + CountOf(Tail(runs), S)

(***************************************************************************)
(* C12. Every line read is accounted for exactly once.                     *)
(* As claimed, the pattern is applied to the line as it stands and the     *)
(* record holds the line as it stands.  The code strips the line first     *)
(* (line.strip()): blanks around a path are not part of file_path, and a   *)
(* path followed by blanks is a match.                                     *)
(***************************************************************************)
\* the text of a line: the line without its terminator
Text(l) == IF Len(l) > 0 /\ l[Len(l)] = "\n" THEN SubSeq(l, 1, Len(l) - 1) ELSE l
IsBlank(l) == \A i \in 1 .. Len(l) : l[i] \in Whitespace
MatchesAsItStands(l) == ExtractGeneAndTissueId(Text(l)).matched

RECURSIVE RecordsAsClaimed(_)
RecordsAsClaimed(runs) ==
    IF runs = << >> THEN << >>
    ELSE LET l == Head(runs).line
             m == ExtractGeneAndTissueId(Text(l)) IN
         (IF ~IsBlank(l) /\ m.matched
          THEN Copies(Record(m.gene_id, Canonical(m.tissue_id), Text(l)), Head(runs).n)
          ELSE << >>) \o RecordsAsClaimed(Tail(runs))

\* C12 as claimed: a line matching the pattern adds one record with the raw line as file_path, any other non-blank line adds one to the invalid count.
C12_AsClaimed ==
    Started =>
        /\ all_data = RecordsAsClaimed(LinesRead)
        /\ InvalidCount = CountOf(LinesRead, { l \in Lines : ~IsBlank(l) /\ ~MatchesAsItStands(l) })

\* C12 amended: of the lines read, each blank line changes no count, each line whose stripped text matches the pattern adds one record (gene, tissue as an integer, the stripped text as file_path), each other line adds one to the invalid count; valid + invalid = the non-blank lines.
C12_EveryLineOnce ==
    Started =>
        /\ all_data = RecordsOf(LinesRead)
        /\ total_valid = Len(all_data)
        /\ InvalidCount = CountOf(LinesRead, {Garbage})
        /\ total_valid + InvalidCount = CountOf(LinesRead, Lines \ {BlankLine})
        /\ total_lines = CountLines(LinesRead)

\* two paths and a garbage line between them: two records, one invalid
C12_Witness ==
    /\ Built
    /\ input_path.runs = << Run(LineA, 1), Run(Garbage, 1), Run(LineB, 1) >>
    /\ total_valid = 2 /\ InvalidCount = 1
    /\ all_data = << RecordOf(LineA), RecordOf(LineB) >>

(***************************************************************************)
(* C13. An ingestion failure ends the process with status 1 and leaves no  *)
(* file of this run at the output path.                                    *)
(***************************************************************************)
Logged(msg) == \E i \in 1 .. Len(log) : log[i].msg = msg
\* a read raises before the end of the file is reached
ReadRaises ==
    /\ input_path.fails_at > 0
    /\ input_path.fails_at
         <= (CountLines(input_path.runs) + chunk_size - 1) \div chunk_size + 1
Unreadable == ~input_path.exists \/ ReadRaises
NoValidRecord == RecordsOf(input_path.runs) = << >>
\* a line of the input holds a tissue number beyond 32 bits
OutOfRange == CountOf(input_path.runs, {LineWide}) > 0
FileOfThisRun == output_file.state \in {"partial", "written"}

\* C13: unreadable input, no valid record, failed validation and failed write each end the run with a non-zero status, and a run that ended so left no file, complete or partial, at the output path.
C13_FailureLeavesNothing ==
    Generating =>
        /\ gpc = "exited" => exit_code = "1" /\ ~FileOfThisRun
        /\ gpc = "done" =>
              /\ exit_code = "0" /\ output_file.state = "written"
              /\ ~Unreadable /\ ~NoValidRecord /\ ~OutOfRange
              /\ ~Logged("error-writing")
        /\ gpc \notin {"exited", "done"} => exit_code = Running
        /\ (Logged("input-not-found") \/ Logged("error-reading") \/ Logged("no-data")
              \/ Logged("error-writing")) => gpc = "exited"
        /\ (gpc \in {"built", "transformed", "validated"} => ~Unreadable /\ ~NoValidRecord)
        /\ (gpc = "validated" => ~OutOfRange)

\* a table of two records passed validation, its write failed, nothing lies at the output path
C13_Witness ==
    /\ Generating /\ gpc = "exited" /\ exit_code = "1"
    /\ Logged("validation-passed") /\ Logged("error-writing")
    /\ record_count = 2
    /\ output_file = NoFile

(***************************************************************************)
(* C15. The write step is reached only by a table that passed validation;  *)
(* a table is turned away only for being empty, for lacking a required     *)
(* column or for a tissue_id beyond 32 bits; missing values and duplicate  *)
(* file_path values are warned about and do not stop the write.            *)
(* The range check is "~between(..)", and a missing value is not between   *)
(* anything: a missing tissue_id is counted as out of range.               *)
(***************************************************************************)
\* _validate_dataframe was entered with df and raised
TurnedAway ==
    /\ gpc = "exited" /\ record_count = 0
    /\ \/ ~Generating /\ exit_code = "raised"
       \/ Generating /\ Logged("validation-passed")
\* the write step was entered with df
WriteReached == gpc = "validated" \/ record_count > 0
IsEmpty(f) == Len(f.rows) = 0 \/ f.cols = {}
HasRequiredColumns(f) == RequiredSet \subseteq f.cols
\* a tissue_id that is a number outside [-2147483648, 2147483647]
BeyondInt32(v) == v # Null /\ ~Between(v)

\* C15: a table reaches the write step only after it passed validation (non-empty, every required column, every tissue_id within 32 bits), and it is turned away for one of these reasons only: null values and duplicate file_path values never block the write.
C15_ValidatedBeforeWrite ==
    /\ WriteReached =>
          /\ ~IsEmpty(df) /\ HasRequiredColumns(df)
          /\ \A i \in 1 .. Len(df.rows) : ~BeyondInt32(df.rows[i].tissue_id)
          /\ Logged("validation-passed")
    /\ output_file.state = "written" => output_file.rows = df.rows
    /\ TurnedAway =>
          \/ IsEmpty(df)
          \/ ~HasRequiredColumns(df)
          \/ \E i \in 1 .. Len(df.rows) : BeyondInt32(df.rows[i].tissue_id)

(***************************************************************************)
(* C16. A tissue capture that does not fit 32 bits.  As claimed the line   *)
(* is skipped and counted as invalid, and the run goes on to write the     *)
(* other records.  int() has no width: the line becomes a record, and the  *)
(* range check of the validation then ends the whole run.                  *)
(***************************************************************************)
\* some line of the input is a path with a tissue number within 32 bits
HasGoodLine == CountOf(input_path.runs, {LineA, LineB}) > 0

RECURSIVE GoodRecordsOf(_)
\* the records of the paths whose tissue number fits 32 bits
GoodRecordsOf(runs) ==
    IF runs = << >> THEN << >>
    ELSE (IF Head(runs).line \in {LineA, LineB}
          THEN Copies(RecordOf(Head(runs).line), Head(runs).n)
          ELSE << >>) \o GoodRecordsOf(Tail(runs))

\* C16: a matching line whose tissue capture exceeds 32 bits is skipped and counted as invalid, never fatal: the build continues and the other valid lines are written.
C16_CoercionFailureSkipped ==
    Generating =>
        /\ gpc \in {"exited", "done"} /\ ~Unreadable /\ HasGoodLine /\ ~Logged("written")
              => Logged("error-writing") /\ record_count > 0
        /\ gpc = "done" =>
              /\ Len(output_file.rows) = Len(GoodRecordsOf(input_path.runs))
              /\ \A i \in 1 .. Len(output_file.rows) : Between(output_file.rows[i].tissue_id)
        /\ Built => /\ all_data = GoodRecordsOf(input_path.runs)
                    /\ InvalidCount = CountOf(input_path.runs, {Garbage, LineWide})

(***************************************************************************)
(* C17. Progress reports.  As claimed, each multiple of 50,000 lines that  *)
(* the count of lines read has passed is reported before the next one is   *)
(* passed, and by the end of the input at the latest, whatever the chunk   *)
(* size.  The code looks at the count only after a whole chunk, and        *)
(* reports only when the count then is a multiple of 50,000.               *)
(***************************************************************************)
ProgressReports == SelectSeq(log, LAMBDA e : e.msg = "progress")
MultiplesPassed == total_lines \div 50000

\* C17: for every chunk size, every multiple of 50,000 lines passed is followed by a progress report before the next multiple is passed (at the latest when the input ends).
C17_ProgressEvery50000 ==
    /\ Started => Len(ProgressReports) >= MultiplesPassed - 1
    /\ Built => Len(ProgressReports) >= MultiplesPassed

(***************************************************************************)
(* C18. Chunking does not change the result.  What was done with the lines *)
(* read so far, chunk by chunk, is compared with _process_chunk applied to *)
(* the same lines as one chunk that starts at line 0.                      *)
(***************************************************************************)
AsOneChunk == ProcessChunk(LinesRead, 0)
\* the warnings about rejected lines, in the order they were logged
Rejections == SelectSeq(log, LAMBDA e : e.msg = "could-not-extract")
\* line number k of the input (from 1)
LineAt(k) == Head(TakeLines(DropLines(input_path.runs, k - 1), 1)).line

\* C18: for every input and chunk size the valid records in input order, the total invalid count and the 1-based line number reported for each rejected line equal those of processing the whole input as one chunk; no line is lost or taken twice at a chunk boundary.
C18_ChunkingInvisible ==
    Started =>
        LET one == AsOneChunk
            rejected == Rejections
        IN
        /\ all_data = one.data
        /\ total_valid = Len(one.data)
        /\ InvalidCount = one.invalid_count
        /\ rejected = one.logged
        /\ \A i \in 1 .. Len(rejected) :
              /\ rejected[i].a \in 1 .. total_lines
              /\ LineAt(rejected[i].a) = Garbage
              /\ rejected[i].text = Text(Garbage)
        /\ Built => total_lines = CountLines(input_path.runs)

\* three lines read in chunks of two: the rejected line is the only line of the short last chunk and is reported as line 3
C18_Witness ==
    /\ Built /\ chunk_size = 2
    /\ input_path.runs = << Run(LineB, 1), Run(LineA, 1), Run(Garbage, 1) >>
    /\ all_data = << RecordOf(LineB), RecordOf(LineA) >>
    /\ InvalidCount = 1
    /\ Len(Rejections) = 1 /\ Rejections[1].a = 3

====
